---- MODULE Spec2Model ----
(***************************************************************************)
(* Model of include/Lightning/support/make_figure.py: get_cstring and      *)
(* make_image, the decoder of the tagged binary chart stream that drives   *)
(* matplotlib while it reads.                                              *)
(*                                                                         *)
(* The input file is revealed read by read: every read of the code takes   *)
(* its result from the small input sets below, and eofAt remembers the     *)
(* read that first found the file exhausted (after which every read        *)
(* returns nothing).  A float64 / uint64 item of np.fromfile is one value  *)
(* of the model (8 bytes of the file); tag, string and int bytes are byte  *)
(* values.  calls is the sequence of matplotlib / filesystem calls issued. *)
(***************************************************************************)
EXTENDS Integers, Sequences, FiniteSets, TLC

\* ---- bounds of the explored inputs ----
MaxRecords == 3
MaxStr == 1
MaxCount == 1
\* successive make_image calls of one process
MaxCalls == 2
\* records in each stream when several calls are made
MultiRecords == 1

\* ---- byte literals of the source ----
NUL == 0
Tag_s == 115
Tag_D == 68
Tag_X == 88
Tag_Y == 89
Tag_T == 84
Tag_P == 80
Tag_S == 83
Tag_E == 69
Tag_O == 79
Tag_R == 82
Tag_I == 73
IntWidth == 4
Slash == 47
Dot == 46

\* bytes the code gives no meaning to: 'Z' and the non-UTF-8 byte 0xFF
OtherBytes == {90, 255}
KnownTags == {Tag_X, Tag_Y, Tag_T, Tag_P, Tag_S, Tag_E, Tag_O, Tag_R}
\* bytes offered at the tag positions of the two loops
TagBytes == KnownTags \cup OtherBytes
\* bytes offered at the header tag and option type positions
HeaderBytes == {Tag_s, Tag_D, Tag_S, Tag_I, NUL} \cup OtherBytes
\* bytes offered inside strings, besides the terminator
StrBytes == {97, 255}
\* bytes offered inside the strings of label records, besides the terminator
LabelBytes == {97, 98, 255}
\* 4-byte payloads of 'I' options
IntPayloads == {<<1, 0, 0, 0>>, <<255, 255, 255, 255>>}
\* float64 items offered to the reads of the dimensions, of x, y, yerr and of
\* a 'D' option (distinct, so that no array can pass for another)
DimVals == {4}
XVals == {1}
YVals == {2}
YerrVals == {3}
OptVals == {5}
\* uint64 items offered to the reads of a series count
Sizes == 0..MaxCount
OutDir == <<100>>

VARIABLES
    pc,          \* position in make_image / get_cstring
    ret,         \* line of the get_cstring call being executed
    eofAt,       \* the read that first found the file exhausted, or "none"
    numpy_index_1d, \* whether numpy converts a 1-element array to a count
    byte_s,      \* make_image: byte_s (decoded), <<>> or <<b>>
    byte_array,  \* get_cstring: byte_array
    strval,      \* value returned by the last get_cstring call
    local_path,  \* make_image: local_path
    label,       \* make_image: label
    size, x, y, yerr, \* make_image: size, x, y, yerr
    arguments,   \* make_image: arguments
    calls,       \* matplotlib / pathlib calls issued so far
    result,      \* "running", "True", "False" or the exception raised
    exitLine,    \* source line of the return / raise, 0 while running
    tags,        \* header tag bytes read at lines 35 and 41
    recs,        \* records decoded so far, in stream order
    nrec,        \* number of record tags read
    file,        \* the bytes and items of the file read so far
    budget,      \* number of records a stream of this run may hold
    plt,         \* matplotlib.pyplot: the figures and the current figure
    history      \* the make_image calls that have returned or raised

vars == <<pc, ret, eofAt, numpy_index_1d, byte_s, byte_array, strval,
          local_path, label, size, x, y, yerr, arguments, calls, result,
          exitLine, tags, recs, nrec, file, budget, plt, history>>

----------------------------------------------------------------------------
\* ---- pure helpers ----

EmptyDict == [n \in {} |-> <<>>]

\* a dictionary that keeps the first value written for a key
SetItemKeepFirst(d, k, v) ==
    [n \in (DOMAIN d) \cup {k} |-> IF n \in DOMAIN d THEN d[n] ELSE v]

SetItem(d, k, v) == [n \in (DOMAIN d) \cup {k} |-> IF n = k THEN v ELSE d[n]]

SeqsUpTo(S, n) == UNION {[1..k -> S] : k \in 0..n}

\* bytes.decode('utf-8') succeeds on these bytes (ASCII is the only valid
\* UTF-8 of the input alphabet; 0xFF never occurs in valid UTF-8)
Utf8Ok(bs) == \A i \in 1..Len(bs) : bs[i] < 128

\* the code points of a decoded ASCII byte string
Utf8Decode(bs) == [i \in 1..Len(bs) |-> bs[i]]

ByteAt(bs, i) == IF i <= Len(bs) THEN bs[i] ELSE 0

\* int.from_bytes(bs, byteorder='little'): an unsigned value, kept as
\* <<hi, lo>> with value hi * 65536 + lo
IntFromBytes(bs) ==
    <<ByteAt(bs, 3) + 256 * ByteAt(bs, 4), ByteAt(bs, 1) + 256 * ByteAt(bs, 2)>>

StrVal(s) == [t |-> "S", v |-> s]
IntVal(bs) == [t |-> "I", v |-> IntFromBytes(bs)]
FloatVal(f) == [t |-> "D", v |-> <<f>>]

\* the number of the make_image call that is running
CallNo == Len(history) + 1

\* plt.figure(1): the figure numbered 1, created only if it does not exist
NewFigureReused(p, who) ==
    IF p.cur = 0 THEN [figs |-> <<who>>, cur |-> 1] ELSE p

\* plt.figure(figsize=...): a new figure, made by call who, becomes the
\* current figure
NewFigure(p, who) == [figs |-> Append(p.figs, who), cur |-> Len(p.figs) + 1]

\* a call issued now; fig is the figure a pyplot call acts on
Call(op, cx, cy, cyerr, text, kw) ==
    [op |-> op, x |-> cx, y |-> cy, yerr |-> cyerr, label |-> text, kw |-> kw,
     fig |-> IF op = "figure" THEN NewFigure(plt, CallNo).cur ELSE plt.cur]

DrawOps == {"plot", "scatter", "errorbar"}

RECURSIVE LastSlash(_, _)
LastSlash(p, i) == IF i = 0 THEN 0 ELSE IF p[i] = Slash THEN i ELSE LastSlash(p, i - 1)

\* pathlib.Path(p).parent for a path without redundant separators
PathParent(p) ==
    LET k == LastSlash(p, Len(p))
    IN IF k = 0 THEN <<Dot>>
       ELSE IF k = 1 THEN <<Slash>>
       ELSE SubSeq(p, 1, k - 1)

\* save_fig_dir / path
PathJoin(d, p) == IF Len(p) > 0 /\ p[1] = Slash THEN p ELSE d \o <<Slash>> \o p

\* lines 135-139: the calls that save the figure at path
SaveCalls(path) ==
    << Call("mkdir", <<>>, <<>>, <<>>, PathParent(path), EmptyDict),
       Call("legend", <<>>, <<>>, <<>>, <<>>, EmptyDict),
       Call("savefig", <<>>, <<>>, <<>>, PathJoin(OutDir, path), EmptyDict) >>

----------------------------------------------------------------------------
\* ---- the file ----

AtEof == eofAt # "none"

\* f.read(1) at a tag position of the two loops: nothing, or one byte; a
\* stream holds at most budget records
ReadTag(ended) ==
    IF ended THEN {<<>>}
    ELSE {<<>>} \cup {<<b>> : b \in {c \in TagBytes : c \in KnownTags => nrec < budget}}

\* f.read(1) at a header tag or option type position
ReadByte(ended) ==
    IF ended THEN {<<>>} ELSE {<<>>} \cup {<<b>> : b \in HeaderBytes}

\* f.read(1) inside a string: nothing, or one byte; a string holds at most
\* MaxStr bytes before its terminator
ReadStr(ended, len) ==
    IF ended THEN {<<>>}
    ELSE {<<>>, <<NUL>>} \cup
         (IF len < MaxStr
          THEN {<<b>> : b \in IF ret \in {51, 56, 61} THEN LabelBytes ELSE StrBytes}
          ELSE {})

\* f.read(IntWidth): the next IntWidth bytes, or fewer when the file ends
ReadInt(ended) ==
    IF ended THEN {<<>>}
    ELSE {SubSeq(p, 1, k) : p \in IntPayloads, k \in 0..IntWidth}

\* np.fromfile(f, count=n): the complete items that are left, at most n
FromFile(ended, vals, n) ==
    IF ended THEN {<<>>} ELSE SeqsUpTo(vals, n)

\* the read that first found the file exhausted
Mark(e, hit, where) == IF e = "none" /\ hit THEN where ELSE e

CountTag(b) == IF b # <<>> /\ b[1] \in KnownTags THEN nrec + 1 ELSE nrec

----------------------------------------------------------------------------
TypeOK ==
    /\ pc \in {"L35", "cstring", "L41", "L43", "labels", "setlabel", "plotting",
               "emit", "L109", "L112", "save", "done"}
    /\ result \in {"running", "True", "False", "AssertionError", "ValueError",
                   "IndexError", "TypeError", "UnicodeDecodeError"}
    /\ nrec \in 0..budget
    /\ numpy_index_1d \in BOOLEAN
    /\ budget \in {MaxRecords, MultiRecords}
    /\ Len(history) < MaxCalls
    /\ plt.cur = Len(plt.figs)

\* the value of size: the array np.fromfile returned (line 75), or its
\* element 0 (lines 86 and 97)
ArrayOf(s) == [scalar |-> FALSE, items |-> s]
ScalarOf(n) == [scalar |-> TRUE, items |-> <<n>>]

\* the locals of a make_image call that starts
StartCall ==
    /\ pc = "L35"
    /\ ret = 0
    /\ eofAt = "none"
    /\ byte_s = <<>>
    /\ byte_array = <<>>
    /\ strval = <<>>
    /\ local_path = <<>>
    /\ label = <<>>
    /\ size = ArrayOf(<<>>)
    /\ x = <<>>
    /\ y = <<>>
    /\ yerr = <<>>
    /\ arguments = EmptyDict
    /\ calls = <<>>
    /\ result = "running"
    /\ exitLine = 0
    /\ tags = <<>>
    /\ recs = <<>>
    /\ nrec = 0
    /\ file = <<>>

NoFigures == [figs |-> <<>>, cur |-> 0]

\* a run of one make_image call on a stream of at most MaxRecords records
Init ==
    /\ StartCall
    /\ numpy_index_1d \in BOOLEAN
    /\ budget = MaxRecords
    /\ plt = NoFigures
    /\ history = <<>>

\* an assert statement that is not executed (python -O)
AssertTagSkipped(b, expected) == TRUE

\* assert (byte_s == 's'), assert (byte_s == 'D')
AssertTag(b, expected) == b = <<expected>>

\* calls that hold the dictionary itself instead of a copy
KwargsAliased(cs, k, v) ==
    [i \in 1..Len(cs) |->
        IF cs[i].op \in DrawOps THEN [cs[i] EXCEPT !.kw = SetItem(@, k, v)] ELSE cs[i]]

\* the keyword arguments of the calls already issued, after
\* arguments[label] = x: the ** of each call copied the dictionary
KwargsAfterSetItem(cs, k, v) == cs

\* leave make_image by a return or an uncaught exception
Exit(res, line) ==
    /\ pc' = "done"
    /\ result' = res
    /\ exitLine' = line

Running == /\ result' = result /\ exitLine' = exitLine

\* byte_s = f.read(1).decode('utf-8') at the end of a loop body (lines 47,
\* 68, 131), after reads that left the file in state e with f read so far
NextTag(e, f, line, where, loop) ==
    \E b \in ReadTag(e # "none") :
        /\ eofAt' = Mark(e, b = <<>>, where)
        /\ file' = f \o b
        /\ IF Utf8Ok(b)
           THEN /\ byte_s' = Utf8Decode(b)
                /\ nrec' = CountTag(b)
                /\ pc' = loop
                /\ Running
           ELSE /\ byte_s' = byte_s
                /\ nrec' = nrec
                /\ Exit("UnicodeDecodeError", line)

\* enter get_cstring from the call at the given line
CallCString(line) ==
    /\ pc' = "cstring"
    /\ ret' = line
    /\ byte_array' = <<>>

Rec(tag, text, n, arrs, val) ==
    [tag |-> tag, text |-> text, n |-> n, arrs |-> arrs, val |-> val]

NoVal == [t |-> "none", v |-> <<>>]

----------------------------------------------------------------------------
\* ---- get_cstring, lines 13-19 ----

ReturnPoint(line) ==
    CASE line = 38 -> "L41"
      [] line \in {51, 56, 61} -> "setlabel"
      [] line \in {78, 89, 101} -> "emit"
      [] line = 108 -> "L109"
      [] line = 112 -> "L112"

\* One pass of the while True loop.  The only exit is the read of b'\x00':
\* at the end of the file read(1) returns b'', byte_array += b'' changes
\* nothing and the loop goes round again, every variable as it was.
get_cstring ==
    /\ pc = "cstring"
    /\ \E b \in ReadStr(AtEof, Len(byte_array)) :
        /\ eofAt' = Mark(eofAt, b = <<>>, "cstring")
        /\ file' = file \o b
        /\ IF b = <<NUL>>
           THEN /\ byte_array' = byte_array
                /\ IF Utf8Ok(byte_array)
                   THEN /\ strval' = Utf8Decode(byte_array)
                        /\ pc' = ReturnPoint(ret)
                        /\ Running
                   ELSE /\ strval' = strval
                        /\ Exit("UnicodeDecodeError", 19)
           ELSE /\ byte_array' = byte_array \o b
                /\ strval' = strval
                /\ pc' = pc
                /\ Running
    /\ UNCHANGED <<plt, budget, history,
                   ret, numpy_index_1d, byte_s, local_path, label, size, x, y,
                   yerr, arguments, calls, tags, recs, nrec>>

----------------------------------------------------------------------------
\* ---- make_image: header, lines 34-47 ----

ReadSaveTag ==
    /\ pc = "L35"
    /\ \E b \in ReadByte(AtEof) :
        /\ eofAt' = Mark(eofAt, b = <<>>, "L35")
        /\ file' = file \o b
        /\ tags' = Append(tags, b)
        /\ IF ~Utf8Ok(b)
           THEN /\ Exit("UnicodeDecodeError", 35)
                /\ UNCHANGED <<byte_s, ret, byte_array>>
           ELSE /\ byte_s' = Utf8Decode(b)
                /\ IF AssertTag(Utf8Decode(b), Tag_s)
                   THEN CallCString(38) /\ Running
                   ELSE Exit("AssertionError", 36) /\ UNCHANGED <<ret, byte_array>>
    /\ UNCHANGED <<plt, budget, history,
                   numpy_index_1d, strval, local_path, label, size, x, y, yerr,
                   arguments, calls, recs, nrec>>

ReadDimTag ==
    /\ pc = "L41"
    /\ local_path' = strval
    /\ \E b \in ReadByte(AtEof) :
        /\ eofAt' = Mark(eofAt, b = <<>>, "L41")
        /\ file' = file \o b
        /\ tags' = Append(tags, b)
        /\ IF ~Utf8Ok(b)
           THEN Exit("UnicodeDecodeError", 41) /\ byte_s' = byte_s
           ELSE /\ byte_s' = Utf8Decode(b)
                /\ IF AssertTag(Utf8Decode(b), Tag_D)
                   THEN pc' = "L43" /\ Running
                   ELSE Exit("AssertionError", 42)
    /\ recs' = Append(recs, Rec(Tag_s, strval, 0, <<>>, NoVal))
    /\ UNCHANGED <<plt, budget, history,
                   ret, numpy_index_1d, byte_array, strval, label, size, x, y,
                   yerr, arguments, calls, nrec>>

ReadDimensions ==
    /\ pc = "L43"
    /\ \E d \in FromFile(AtEof, DimVals, 2) :
        IF Len(d) < 2
        THEN /\ eofAt' = Mark(eofAt, TRUE, "L43")
             /\ file' = file \o d
             /\ Exit("ValueError", 43)
             /\ UNCHANGED <<x, y, calls, recs, byte_s, nrec, plt>>
        ELSE /\ x' = <<d[1]>>
             /\ y' = <<d[2]>>
             /\ calls' = Append(calls, Call("figure", <<d[1]>>, <<d[2]>>, <<>>, <<>>, EmptyDict))
             /\ recs' = Append(recs, Rec(Tag_D, <<>>, 2, <<d>>, NoVal))
             /\ plt' = NewFigure(plt, CallNo)
             /\ NextTag(eofAt, file \o d, 47, "L47", "labels")
    /\ UNCHANGED <<budget, history,
                   ret, numpy_index_1d, byte_array, strval, local_path, label,
                   size, yerr, arguments, tags>>

----------------------------------------------------------------------------
\* ---- make_image: labels loop, lines 48-68 ----

LabelTags == {Tag_X, Tag_Y, Tag_T}

LabelLine(b) == CASE b = Tag_X -> 51 [] b = Tag_Y -> 56 [] b = Tag_T -> 61

LabelOp(line) == CASE line = 51 -> "xlabel" [] line = 56 -> "ylabel" [] line = 61 -> "title"

\* a label that is set only while the axis has none
ApplyLabelOnce(cs, op, text) ==
    IF 0 < Len(text) /\ ~\E i \in 1..Len(cs) : cs[i].op = op
    THEN Append(cs, Call(op, <<>>, <<>>, <<>>, text, EmptyDict))
    ELSE cs

\* a label that is set whatever its length
ApplyLabelAlways(cs, op, text) == Append(cs, Call(op, <<>>, <<>>, <<>>, text, EmptyDict))

\* lines 52-53, 57-58, 62-63: if 0 < len(label): plt.xlabel(label)
ApplyLabel(cs, op, text) ==
    IF 0 < Len(text)
    THEN Append(cs, Call(op, <<>>, <<>>, <<>>, text, EmptyDict))
    ELSE cs

\* lines 49-51, 54-56, 59-61: a label tag, its string is read next
LabelRecord ==
    /\ pc = "labels"
    /\ byte_s # <<>>
    /\ byte_s[1] \in LabelTags
    /\ CallCString(LabelLine(byte_s[1]))
    /\ UNCHANGED <<file, plt, budget, history,
                   eofAt, numpy_index_1d, byte_s, strval, local_path, label, size,
                   x, y, yerr, arguments, calls, result, exitLine, tags, recs, nrec>>

\* lines 52-53, 57-58, 62-63, 68: the label is applied when it is not empty
SetLabel ==
    /\ pc = "setlabel"
    /\ label' = strval
    /\ calls' = ApplyLabel(calls, LabelOp(ret), strval)
    /\ recs' = Append(recs, Rec(byte_s[1], strval, 0, <<>>, NoVal))
    /\ NextTag(eofAt, file, 68, "L68", "labels")
    /\ UNCHANGED <<plt, budget, history,
                   ret, numpy_index_1d, byte_array, strval, local_path, size, x, y,
                   yerr, arguments, tags>>

\* lines 48 and 64-66: the stream ended, or the first tag that is no label tag
LabelsEnd ==
    /\ pc = "labels"
    /\ IF byte_s = <<>> THEN TRUE ELSE byte_s[1] \notin LabelTags
    /\ pc' = "plotting"
    /\ UNCHANGED <<file, plt, budget, history,
                   ret, eofAt, numpy_index_1d, byte_s, byte_array, strval, local_path,
                   label, size, x, y, yerr, arguments, calls, result, exitLine, tags,
                   recs, nrec>>

----------------------------------------------------------------------------
\* ---- make_image: plotting loop, lines 71-131 ----

SeriesOp(line) == CASE line = 78 -> "plot" [] line = 89 -> "scatter" [] line = 101 -> "errorbar"

\* the three (two) np.fromfile array reads of a series record with count n,
\* then the call of get_cstring for its label
ReadArrays(e, f, n, witherr) ==
    \E ax \in FromFile(e # "none", XVals, n) :
    \E ay \in FromFile(e # "none" \/ Len(ax) < n, YVals, n) :
    \E ae \in IF witherr
              THEN FromFile(e # "none" \/ Len(ax) < n \/ Len(ay) < n, YerrVals, n)
              ELSE {yerr} :
        /\ x' = ax
        /\ y' = ay
        /\ yerr' = ae
        /\ eofAt' = Mark(Mark(Mark(e, Len(ax) < n, "x"), Len(ay) < n, "y"),
                         witherr /\ Len(ae) < n, "yerr")
        /\ file' = f \o ax \o ay \o (IF witherr THEN ae ELSE <<>>)

\* lines 72-78: size stays the 1-element array np.fromfile returned (no [0]
\* as at lines 86 and 97), and count=size asks numpy to convert that array to
\* an integer: a TypeError unless numpy still converts 1-d arrays to an index
PlotLine ==
    /\ pc = "plotting"
    /\ byte_s = <<Tag_P>>
    /\ \E s \in FromFile(AtEof, Sizes, 1) :
        /\ size' = ArrayOf(s)
        /\ IF numpy_index_1d /\ Len(s) = 1
           THEN /\ ReadArrays(Mark(eofAt, Len(s) < 1, "size"), file \o s, s[1], FALSE)
                /\ CallCString(78)
                /\ Running
           ELSE /\ eofAt' = Mark(eofAt, Len(s) < 1, "size")
                /\ file' = file \o s
                /\ Exit("TypeError", 76)
                /\ UNCHANGED <<x, y, yerr, ret, byte_array>>
    /\ UNCHANGED <<plt, budget, history,
                   numpy_index_1d, byte_s, strval, local_path, label, arguments,
                   calls, tags, recs, nrec>>

\* lines 83-89 and 94-101: size is element 0 of the array np.fromfile returned
SizedSeries(sizeline, line, witherr) ==
    /\ \E s \in FromFile(AtEof, Sizes, 1) :
        IF Len(s) = 1
        THEN /\ size' = ScalarOf(s[1])
             /\ ReadArrays(eofAt, file \o s, s[1], witherr)
             /\ CallCString(line)
             /\ Running
        ELSE /\ eofAt' = Mark(eofAt, TRUE, "size")
             /\ file' = file
             /\ Exit("IndexError", sizeline)
             /\ UNCHANGED <<size, x, y, yerr, ret, byte_array>>
    /\ UNCHANGED <<plt, budget, history,
                   numpy_index_1d, byte_s, strval, local_path, label, arguments,
                   calls, tags, recs, nrec>>

Scatter ==
    /\ pc = "plotting"
    /\ byte_s = <<Tag_S>>
    /\ SizedSeries(86, 89, FALSE)

ErrorBar ==
    /\ pc = "plotting"
    /\ byte_s = <<Tag_E>>
    /\ SizedSeries(97, 101, TRUE)

\* the count of a series record: size itself, or the only element of the
\* array size
SizeOf(sz) == sz.items[1]

\* lines 79-82, 90-93, 102-105, 131: the draw call with the label (when not
\* empty) and the current options as keyword arguments
EmitSeries ==
    /\ pc = "emit"
    /\ label' = strval
    /\ calls' = Append(calls, Call(SeriesOp(ret), x, y,
                                   IF ret = 101 THEN yerr ELSE <<>>,
                                   strval, arguments))
    /\ recs' = Append(recs, Rec(byte_s[1], strval, SizeOf(size),
                                IF ret = 101 THEN <<x, y, yerr>> ELSE <<x, y>>, NoVal))
    /\ NextTag(eofAt, file, 131, "L131", "plotting")
    /\ UNCHANGED <<plt, budget, history,
                   ret, numpy_index_1d, byte_array, strval, local_path, size, x, y,
                   yerr, arguments, tags>>

\* lines 106-108: an option record, its name is read next
OptionName ==
    /\ pc = "plotting"
    /\ byte_s = <<Tag_O>>
    /\ CallCString(108)
    /\ UNCHANGED <<file, plt, budget, history,
                   eofAt, numpy_index_1d, byte_s, strval, local_path, label, size,
                   x, y, yerr, arguments, calls, result, exitLine, tags, recs, nrec>>

\* an unknown option type that is passed over: the loop goes on
UnknownTypeIgnored(t) ==
    /\ NextTag(Mark(eofAt, t = <<>>, "L109"), file \o t, 131, "L131", "plotting")
    /\ UNCHANGED <<x, arguments, calls, recs, ret, byte_array>>

\* an unknown option type that leaves the loop with break
UnknownTypeBreaks(t) ==
    /\ eofAt' = Mark(eofAt, t = <<>>, "L109")
    /\ file' = file \o t
    /\ pc' = "save"
    /\ Running
    /\ UNCHANGED <<x, arguments, calls, recs, byte_s, nrec, ret, byte_array>>

\* lines 119-121: o_type is none of 'S', 'I', 'D' (or the file has ended)
UnknownType(t) ==
    /\ eofAt' = Mark(eofAt, t = <<>>, "L109")
    /\ file' = file \o t
    /\ Exit("False", 121)
    /\ UNCHANGED <<x, arguments, calls, recs, byte_s, nrec, ret, byte_array>>

\* lines 109-122, 131: the type byte, then the value of an 'I' or 'D' option;
\* the string of an 'S' option is read next
OptionType ==
    /\ pc = "L109"
    /\ label' = strval
    /\ \E t \in ReadByte(AtEof) :
        IF ~Utf8Ok(t)
        THEN /\ eofAt' = eofAt
             /\ file' = file \o t
             /\ Exit("UnicodeDecodeError", 109)
             /\ UNCHANGED <<x, arguments, calls, recs, byte_s, nrec, ret, byte_array>>
        ELSE IF t = <<Tag_S>>
        THEN /\ eofAt' = eofAt
             /\ file' = file \o t
             /\ CallCString(112)
             /\ Running
             /\ UNCHANGED <<x, arguments, calls, recs, byte_s, nrec>>
        ELSE IF t = <<Tag_I>>
        THEN \E bs \in ReadInt(AtEof) :
             /\ x' = IntFromBytes(bs)
             /\ arguments' = SetItem(arguments, strval, IntVal(bs))
             /\ calls' = KwargsAfterSetItem(calls, strval, IntVal(bs))
             /\ recs' = Append(recs, Rec(Tag_O, strval, Len(bs), <<>>, IntVal(bs)))
             /\ NextTag(Mark(eofAt, Len(bs) < IntWidth, "L115"), file \o t \o bs,
                        131, "L131", "plotting")
             /\ UNCHANGED <<ret, byte_array>>
        ELSE IF t = <<Tag_D>>
        THEN \E d \in FromFile(AtEof, OptVals, 1) :
             IF Len(d) = 1
             THEN /\ x' = <<d[1]>>
                  /\ arguments' = SetItem(arguments, strval, FloatVal(d[1]))
                  /\ calls' = KwargsAfterSetItem(calls, strval, FloatVal(d[1]))
                  /\ recs' = Append(recs, Rec(Tag_O, strval, 1, <<>>, FloatVal(d[1])))
                  /\ NextTag(eofAt, file \o t \o d, 131, "L131", "plotting")
                  /\ UNCHANGED <<ret, byte_array>>
             ELSE /\ eofAt' = Mark(eofAt, TRUE, "L118")
                  /\ file' = file \o t
                  /\ Exit("IndexError", 118)
                  /\ UNCHANGED <<x, arguments, calls, recs, byte_s, nrec, ret, byte_array>>
        ELSE UnknownType(t)
    /\ UNCHANGED <<plt, budget, history,
                   numpy_index_1d, strval, local_path, size, y, yerr, tags>>

\* lines 112, 122, 131: the value of an 'S' option
OptionString ==
    /\ pc = "L112"
    /\ x' = strval
    /\ arguments' = SetItem(arguments, label, StrVal(strval))
    /\ calls' = KwargsAfterSetItem(calls, label, StrVal(strval))
    /\ recs' = Append(recs, Rec(Tag_O, label, 0, <<>>, StrVal(strval)))
    /\ NextTag(eofAt, file, 131, "L131", "plotting")
    /\ UNCHANGED <<plt, budget, history,
                   ret, numpy_index_1d, byte_array, strval, local_path, label, size,
                   y, yerr, tags>>

\* lines 123-125, 131
ResetOptions ==
    /\ pc = "plotting"
    /\ byte_s = <<Tag_R>>
    /\ arguments' = EmptyDict
    /\ recs' = Append(recs, Rec(Tag_R, <<>>, 0, <<>>, NoVal))
    /\ NextTag(eofAt, file, 131, "L131", "plotting")
    /\ UNCHANGED <<plt, budget, history,
                   ret, numpy_index_1d, byte_array, strval, local_path, label, size,
                   x, y, yerr, calls, tags>>

PlotTags == {Tag_P, Tag_S, Tag_E, Tag_O, Tag_R}

\* an unknown tag that is skipped: the loop goes on with the next byte
InvalidByteSkipped ==
    /\ pc = "plotting"
    /\ byte_s # <<>>
    /\ byte_s[1] \notin PlotTags
    /\ NextTag(eofAt, file, 131, "L131", "plotting")
    /\ UNCHANGED <<plt, budget, history,
                   ret, numpy_index_1d, byte_array, strval, local_path, label, size,
                   x, y, yerr, arguments, calls, tags, recs>>

\* an unknown tag that leaves the loop with break: what was drawn is saved
InvalidByteSaved ==
    /\ pc = "plotting"
    /\ byte_s # <<>>
    /\ byte_s[1] \notin PlotTags
    /\ calls' = calls \o SaveCalls(local_path)
    /\ Exit("False", 128)
    /\ UNCHANGED <<file, plt, budget, history,
                   ret, eofAt, numpy_index_1d, byte_s, byte_array, strval, local_path,
                   label, size, x, y, yerr, arguments, tags, recs, nrec>>

\* a label tag met in the plotting loop that is handled as a label record
InvalidByteRelabels ==
    /\ pc = "plotting"
    /\ byte_s # <<>>
    /\ byte_s[1] \notin PlotTags
    /\ IF byte_s[1] \in LabelTags
       THEN pc' = "labels" /\ UNCHANGED <<result, exitLine>>
       ELSE Exit("False", 128)
    /\ UNCHANGED <<file, plt, budget, history,
                   ret, eofAt, numpy_index_1d, byte_s, byte_array, strval, local_path,
                   label, size, x, y, yerr, arguments, calls, tags, recs, nrec>>

\* lines 126-128
InvalidByte ==
    /\ pc = "plotting"
    /\ byte_s # <<>>
    /\ byte_s[1] \notin PlotTags
    /\ Exit("False", 128)
    /\ UNCHANGED <<file, plt, budget, history,
                   ret, eofAt, numpy_index_1d, byte_s, byte_array, strval, local_path,
                   label, size, x, y, yerr, arguments, calls, tags, recs, nrec>>

\* line 71: the stream ended at a tag position
PlottingEnd ==
    /\ pc = "plotting"
    /\ byte_s = <<>>
    /\ pc' = "save"
    /\ UNCHANGED <<file, plt, budget, history,
                   ret, eofAt, numpy_index_1d, byte_s, byte_array, strval, local_path,
                   label, size, x, y, yerr, arguments, calls, result, exitLine, tags,
                   recs, nrec>>

----------------------------------------------------------------------------
\* ---- make_image: saving, lines 133-141 ----

SaveFigure ==
    /\ pc = "save"
    /\ IF 0 < Len(local_path)
       THEN /\ calls' = calls \o SaveCalls(local_path)
            /\ Exit("True", 140)
       ELSE /\ calls' = calls
            /\ Exit("False", 141)
    /\ UNCHANGED <<file, plt, budget, history,
                   ret, eofAt, numpy_index_1d, byte_s, byte_array, strval, local_path,
                   label, size, x, y, yerr, arguments, tags, recs, nrec>>

----------------------------------------------------------------------------
Next ==
    \/ ReadSaveTag
    \/ get_cstring
    \/ ReadDimTag
    \/ ReadDimensions
    \/ LabelRecord
    \/ SetLabel
    \/ LabelsEnd
    \/ PlotLine
    \/ Scatter
    \/ ErrorBar
    \/ EmitSeries
    \/ OptionName
    \/ OptionType
    \/ OptionString
    \/ ResetOptions
    \/ InvalidByte
    \/ PlottingEnd
    \/ SaveFigure

Spec == Init /\ [][Next]_vars

\* the interpreter keeps executing the single thread of make_image
FairSpec == Spec /\ WF_vars(Next)

\* ---- successive calls of make_image in one process ----

\* a process that calls make_image MaxCalls times on streams of at most
\* MultiRecords records; pyplot is imported once and keeps its figures
MultiInit ==
    /\ StartCall
    /\ numpy_index_1d \in BOOLEAN
    /\ budget = MultiRecords
    /\ plt = NoFigures
    /\ history = <<>>

\* line 22: the caller calls make_image again after a call has returned or
\* raised; the locals are new, the module state of pyplot is not
NextCall ==
    /\ pc = "done"
    /\ CallNo < MaxCalls
    /\ history' = Append(history, [result |-> result, calls |-> calls])
    /\ pc' = "L35"
    /\ ret' = 0
    /\ eofAt' = "none"
    /\ byte_s' = <<>>
    /\ byte_array' = <<>>
    /\ strval' = <<>>
    /\ local_path' = <<>>
    /\ label' = <<>>
    /\ size' = ArrayOf(<<>>)
    /\ x' = <<>>
    /\ y' = <<>>
    /\ yerr' = <<>>
    /\ arguments' = EmptyDict
    /\ calls' = <<>>
    /\ result' = "running"
    /\ exitLine' = 0
    /\ tags' = <<>>
    /\ recs' = <<>>
    /\ nrec' = 0
    /\ file' = <<>>
    /\ UNCHANGED <<numpy_index_1d, budget, plt>>

MultiNext ==
    \/ Next
    \/ NextCall

MultiSpec == MultiInit /\ [][MultiNext]_vars

----------------------------------------------------------------------------
\* ---- vocabulary of the properties ----

Exceptions == {"AssertionError", "ValueError", "IndexError", "TypeError",
               "UnicodeDecodeError"}

Done == pc = "done"

\* the decode ended in an error: an exception, or return False at line 121 / 128
DecodeFailed == Done /\ (result \in Exceptions \/ exitLine \in {121, 128})

\* the decode ran to the end of the stream: return at line 140 / 141
DecodeSucceeded == Done /\ exitLine \in {140, 141}

HasCall(ops) == \E i \in 1..Len(calls) : calls[i].op \in ops

DrawCalls == {i \in 1..Len(calls) : calls[i].op \in DrawOps}

SeriesTags == {Tag_P, Tag_S, Tag_E}

SeriesRecs == {i \in 1..Len(recs) : recs[i].tag \in SeriesTags}

\* the decoder has left the header behind
PastHeader ==
    \/ pc \in {"labels", "setlabel", "plotting", "emit", "L109", "L112", "save"}
    \/ pc = "cstring" /\ ret # 38
    \/ Done /\ exitLine \notin {19, 35, 36, 41, 42, 43}
    \/ Done /\ exitLine = 19 /\ ret # 38

TagReads == {"L47", "L68", "L131"}

----------------------------------------------------------------------------
\* ---- C1 ----

HeaderRejected == DecodeFailed /\ ~HasCall(DrawOps \cup {"savefig"})

\* C1: a first byte other than 's' (or no byte at all), or a byte other than
\* 'D' after the terminator of the save path, ends the decode with an error
\* and with no draw and no save call; the decoder gets past the header only
\* after 's', a terminated string, 'D' and two float64 values.
C1_HeaderGate ==
    /\ (Len(tags) >= 1 /\ tags[1] # <<Tag_s>>) => HeaderRejected
    /\ (Len(tags) >= 2 /\ tags[2] # <<Tag_D>>) => HeaderRejected
    /\ PastHeader =>
          /\ tags = << <<Tag_s>>, <<Tag_D>> >>
          /\ Len(recs) >= 2
          /\ recs[1].tag = Tag_s
          /\ recs[2].tag = Tag_D
          /\ Len(recs[2].arrs[1]) = 2

C1_Witness ==
    /\ Len(tags) = 2
    /\ tags[2] # <<Tag_D>>
    /\ result = "AssertionError"
    /\ exitLine = 42

----------------------------------------------------------------------------
\* ---- C2 ----

UnknownPlotTag == pc = "plotting" /\ byte_s # <<>> /\ byte_s[1] \notin PlotTags

\* C2: in the plotting loop a tag that is none of P, S, E, O, R makes the
\* decode return its failure result at once: the next step ends the call with
\* False, and decodes no record and issues no call.
C2_UnknownTagFails ==
    [][UnknownPlotTag =>
          /\ pc' = "done"
          /\ result' = "False"
          /\ exitLine' = 128
          /\ recs' = recs
          /\ calls' = calls
          /\ eofAt' = eofAt]_vars

C2_Witness == exitLine = 128 /\ DrawCalls # {} /\ byte_s = <<90>>

----------------------------------------------------------------------------
\* ---- C3 ----

Rank(set, i) == Cardinality({j \in set : j <= i})

\* the record of a draw call: series records and draw calls come in the same
\* order
RecOf(c) == CHOOSE i \in SeriesRecs : Rank(SeriesRecs, i) = Rank(DrawCalls, c)

FullLength(c) ==
    LET r == recs[RecOf(c)]
    IN /\ Len(calls[c].x) = r.n
       /\ Len(calls[c].y) = r.n
       /\ calls[c].op = "errorbar" => Len(calls[c].yerr) = r.n

TruncatedArray == eofAt \in {"x", "y", "yerr"}

\* C3: every series emitted has x, y (and yerr) of exactly the declared
\* length, and a stream that ends inside the arrays of a series record ends
\* in a format error.
C3_FullArraysOrError ==
    /\ [](\A c \in DrawCalls : FullLength(c))
    /\ [](TruncatedArray => <>DecodeFailed)

----------------------------------------------------------------------------
\* ---- C4 ----

\* C4: decoding terminates on every finite stream, also when the stream ends
\* inside a null-terminated string.
C4_Terminates == <>Done

----------------------------------------------------------------------------
\* ---- C5 ----

\* C5: the decode counts as a success only when the stream ended at a tag
\* position of the labels or plotting loop.
C5_CleanEndOnlyAtTag == DecodeSucceeded => eofAt \in TagReads

----------------------------------------------------------------------------
\* ---- C6 ----

----------------------------------------------------------------------------
\* ---- C7 ----

\* C7: the options a series was drawn with never change afterwards: every
\* step leaves every call already issued as it was.
C7_SnapshotFixed ==
    [][/\ Len(calls') >= Len(calls)
       /\ \A i \in 1..Len(calls) : calls'[i] = calls[i]]_vars

\* a series drawn with an option that was overwritten or reset afterwards
C7_Witness ==
    \E c \in DrawCalls : \E k \in DOMAIN calls[c].kw :
        \/ k \notin DOMAIN arguments
        \/ k \in DOMAIN arguments /\ arguments[k] # calls[c].kw[k]

----------------------------------------------------------------------------
\* ---- C8 ----

MaxOf(set) == CHOOSE m \in set : \A n \in set : n <= m

\* the options in force before record i: of the 'O' records after the last
\* 'R' record before i, the last one of each name
OptionsBefore(i) ==
    LET from == MaxOf({0} \cup {j \in 1..(i - 1) : recs[j].tag = Tag_R}) + 1
        os == {j \in from..(i - 1) : recs[j].tag = Tag_O}
        names == {recs[j].text : j \in os}
    IN [n \in names |-> recs[MaxOf({j \in os : recs[j].text = n})].val]

----------------------------------------------------------------------------
\* ---- C9 ----

\* the stream read so far broke the grammar: a wrong byte, or its end inside
\* a record
Malformed ==
    \/ eofAt \notin {"none"} \cup TagReads
    \/ \E i \in 1..Len(tags) : tags[i] # <<IF i = 1 THEN Tag_s ELSE Tag_D>>
    \/ exitLine \in {19, 121, 128}
    \/ result = "UnicodeDecodeError"

\* C9: on a well-formed stream the result is True exactly when the save path
\* is not empty, and savefig is called exactly when the result is True; with
\* an empty save path the result is False and nothing is created.
C9_SavedIffPath ==
    (Done /\ ~Malformed) =>
        /\ (result = "True") <=> (Len(local_path) > 0)
        /\ HasCall({"savefig"}) <=> (result = "True")
        /\ Len(local_path) = 0 => (result = "False" /\ ~HasCall({"mkdir"}))

----------------------------------------------------------------------------
\* ---- C10 ----

\* C10: legend is called only if some series was drawn with a label.
C10_LegendNeedsLabel ==
    HasCall({"legend"}) => \E c \in DrawCalls : Len(calls[c].label) > 0

----------------------------------------------------------------------------
\* ---- C11 ----

LabelOpOf(tag) == LabelOp(LabelLine(tag))

\* the label records of a tag that carry a non-empty string
LabelRecs(tag) == {i \in 1..Len(recs) : recs[i].tag = tag /\ Len(recs[i].text) > 0}

LabelCalls(op) == {i \in 1..Len(calls) : calls[i].op = op}

\* the label an axis ends with: the text of the last xlabel / ylabel / title
\* call, none when there was no such call
AxisLabel(op) ==
    IF LabelCalls(op) = {} THEN <<>> ELSE calls[MaxOf(LabelCalls(op))].label

\* C11: label tags may repeat, and the later one overwrites: the label of an
\* axis is the string of the last record of its tag with a non-empty string,
\* so of two X records with different strings the second one is the xlabel
\* (the same for Y and T).
C11_LastLabelWins ==
    \A tag \in LabelTags :
        LabelRecs(tag) # {} =>
            AxisLabel(LabelOpOf(tag)) = recs[MaxOf(LabelRecs(tag))].text

\* two X records with different strings, then the plotting loop
C11_Witness ==
    /\ Cardinality(LabelRecs(Tag_X)) = 2
    /\ \E i, j \in LabelRecs(Tag_X) : i < j /\ recs[i].text # recs[j].text
    /\ pc = "plotting"

----------------------------------------------------------------------------
\* ---- C12 ----

DrawOpOf(tag) == CASE tag = Tag_P -> "plot" [] tag = Tag_S -> "scatter" [] tag = Tag_E -> "errorbar"

\* the draw call is the one of the record's variant, with the record's data
MatchesRecord(c) ==
    LET r == recs[RecOf(c)]
    IN /\ calls[c].op = DrawOpOf(r.tag)
       /\ calls[c].x = r.arrs[1]
       /\ calls[c].y = r.arrs[2]
       /\ r.tag = Tag_E => calls[c].yerr = r.arrs[3]
       /\ calls[c].label = r.text

\* every record whose tag was read has been decoded
AllRecordsDecoded == Len(recs) = nrec + 2

\* C12: the draw calls are, record by record and in the order of the stream,
\* the calls of the P, S and E records (plot, scatter, errorbar), and on a
\* well-formed stream every series record has its call; figure is the first
\* call, legend and savefig come after the last draw call, and savefig is the
\* last call.
C12_CallsInStreamOrder ==
    /\ Cardinality(DrawCalls) = Cardinality(SeriesRecs)
    /\ \A c \in DrawCalls : MatchesRecord(c)
    /\ (Done /\ ~Malformed) => AllRecordsDecoded
    /\ \A i \in 1..Len(calls) :
          /\ (calls[i].op = "figure") <=> (i = 1)
          /\ calls[i].op \in {"legend", "savefig"} => \A c \in DrawCalls : c < i
          /\ calls[i].op = "savefig" => i = Len(calls)

----------------------------------------------------------------------------
\* ---- C13 ----

\* an integer of the producer, <<sign, hi, lo>>: sign 1 when negative, and the
\* magnitude hi * 65536 + lo
IntNum(neg, mag) == <<IF neg THEN 1 ELSE 0>> \o mag

\* the value of an option as the caller of the backend sees it; the value of
\* int.from_bytes is never negative
ViewVal(val) == IF val.t = "I" THEN [t |-> "I", v |-> IntNum(FALSE, val.v)] ELSE val

\* the 4 little-endian bytes of a signed 32-bit integer (two's complement)
ToBytes32(n) ==
    LET hi == IF n[1] = 1
              THEN (65535 - n[2] + (IF n[3] = 0 THEN 1 ELSE 0)) % 65536
              ELSE n[2]
        lo == IF n[1] = 1 THEN (65536 - n[3]) % 65536 ELSE n[3]
    IN <<lo % 256, lo \div 256, hi % 256, hi \div 256>>

\* the option sets, series and charts of the round trip
SpecValues ==
    {StrVal(<<97>>), FloatVal(5),
     [t |-> "I", v |-> IntNum(FALSE, <<0, 1>>)],
     [t |-> "I", v |-> IntNum(TRUE, <<0, 1>>)]}

SpecOptions == {EmptyDict} \cup {SetItem(EmptyDict, <<97>>, v) : v \in SpecValues}

SpecSeries ==
    {[kind |-> k, x |-> [i \in 1..n |-> 1], y |-> [i \in 1..n |-> 2],
      yerr |-> IF k = Tag_E THEN [i \in 1..n |-> 3] ELSE <<>>,
      label |-> l, opts |-> o] :
        k \in SeriesTags, n \in 0..1, l \in {<<>>, <<97>>}, o \in SpecOptions}

ChartSpecs ==
    {[savePath |-> p, width |-> 4, height |-> 4, xLabel |-> xl, yLabel |-> yl,
      title |-> t, series |-> ss] :
        p \in {<<>>, <<97>>}, xl \in {<<>>, <<98>>}, yl \in {<<>>, <<97>>},
        t \in {<<>>, <<97>>}, ss \in {<<>>} \cup {<<s>> : s \in SpecSeries}}

\* the reference encoder of the grammar: header, labels, then per series an
\* R, its O records and its series record
EncodeString(s) == s \o <<NUL>>

EncodeLabel(tag, s) == IF s = <<>> THEN <<>> ELSE <<tag>> \o EncodeString(s)

EncodeValue(val) ==
    CASE val.t = "S" -> <<Tag_S>> \o EncodeString(val.v)
      [] val.t = "I" -> <<Tag_I>> \o ToBytes32(val.v)
      [] val.t = "D" -> <<Tag_D>> \o val.v

RECURSIVE EncodeOptions(_)
EncodeOptions(d) ==
    IF DOMAIN d = {} THEN <<>>
    ELSE LET k == CHOOSE n \in DOMAIN d : TRUE
         IN <<Tag_O>> \o EncodeString(k) \o EncodeValue(d[k])
            \o EncodeOptions([n \in DOMAIN d \ {k} |-> d[n]])

EncodeOneSeries(s) ==
    <<Tag_R>> \o EncodeOptions(s.opts) \o <<s.kind, Len(s.x)>> \o s.x \o s.y \o s.yerr
    \o EncodeString(s.label)

RECURSIVE EncodeSeries(_)
EncodeSeries(ss) ==
    IF ss = <<>> THEN <<>> ELSE EncodeOneSeries(Head(ss)) \o EncodeSeries(Tail(ss))

Encode(S) ==
    <<Tag_s>> \o EncodeString(S.savePath) \o <<Tag_D, S.width, S.height>>
    \o EncodeLabel(Tag_X, S.xLabel) \o EncodeLabel(Tag_Y, S.yLabel)
    \o EncodeLabel(Tag_T, S.title) \o EncodeSeries(S.series)

IsPrefix(f, e) == Len(f) <= Len(e) /\ SubSeq(e, 1, Len(f)) = f

EncodedPrefixes ==
    UNION {{SubSeq(Encode(S), 1, k) : k \in 0..Len(Encode(S))} : S \in ChartSpecs}

\* the call has ended and what it read agrees with the stream e: a prefix of
\* e, and the whole of e when the end of the file was met
RanOn(e) == Done /\ IsPrefix(file, e) /\ (AtEof => file = e)

TagOfOp(op) == CASE op = "plot" -> Tag_P [] op = "scatter" -> Tag_S [] op = "errorbar" -> Tag_E

NthDraw(k) == CHOOSE c \in DrawCalls : Rank(DrawCalls, c) = k

\* the chart the backend was given
DecodedChart ==
    [savePath |-> local_path, width |-> calls[1].x[1], height |-> calls[1].y[1],
     xLabel |-> AxisLabel("xlabel"), yLabel |-> AxisLabel("ylabel"),
     title |-> AxisLabel("title"),
     series |-> [k \in 1..Cardinality(DrawCalls) |->
                    LET c == calls[NthDraw(k)]
                    IN [kind |-> TagOfOp(c.op), x |-> c.x, y |-> c.y, yerr |-> c.yerr,
                        label |-> c.label,
                        opts |-> [n \in DOMAIN c.kw |-> ViewVal(c.kw[n])]]]]

\* C13: round trip: the decode of the encoding of a chart ends at the end of
\* the stream and has given the backend exactly that chart: labels,
\* dimensions, series in order, their data and their options.
C13_RoundTrip ==
    (Done /\ file \in EncodedPrefixes) =>
        \A S \in ChartSpecs :
            RanOn(Encode(S)) => (DecodeSucceeded /\ DecodedChart = S)

----------------------------------------------------------------------------
\* ---- C14 ----

\* the signed 32-bit integer (two's complement) of 4 little-endian bytes
Signed32(bs) ==
    LET u == IntFromBytes(bs)
    IN IF bs[4] >= 128
       THEN IntNum(TRUE, <<(65535 - u[1] + (IF u[2] = 0 THEN 1 ELSE 0)) % 65536,
                           (65536 - u[2]) % 65536>>)
       ELSE IntNum(FALSE, u)

\* the step reads the type byte 'I' and the 4 bytes of the value
ReadsIntOption ==
    /\ pc = "L109"
    /\ Len(file') >= Len(file) + 1 + IntWidth
    /\ file'[Len(file) + 1] = Tag_I

\* C14: the value of an 'I' option is the signed 32-bit integer of its 4
\* little-endian bytes: FF FF FF FF is -1.
C14_SignedInt ==
    [][ReadsIntOption =>
          ViewVal(arguments'[strval]) =
              [t |-> "I", v |-> Signed32(SubSeq(file', Len(file) + 2, Len(file) + 1 + IntWidth))]]_vars

----------------------------------------------------------------------------
\* ---- C15 ----

\* the phase of the decoder: 1 header, 2 labels, 3 plotting, 4 done
Phase ==
    CASE pc \in {"L35", "L41", "L43"} -> 1
      [] pc = "cstring" -> (IF ret = 38 THEN 1 ELSE IF ret \in {51, 56, 61} THEN 2 ELSE 3)
      [] pc \in {"labels", "setlabel"} -> 2
      [] pc \in {"plotting", "emit", "L109", "L112"} -> 3
      [] pc \in {"save", "done"} -> 4

LabelTagInPlotting == pc = "plotting" /\ byte_s # <<>> /\ byte_s[1] \in LabelTags

\* C15: the phase never goes back; from the plotting phase on no label is
\* set any more, and an X, Y or T tag at a tag position of the plotting loop
\* ends the decode with the failure of an unknown tag.
C15_PhaseForward ==
    [][/\ Phase' >= Phase
       /\ Phase >= 3 => LabelCalls("xlabel")' = LabelCalls("xlabel")
                        /\ LabelCalls("ylabel")' = LabelCalls("ylabel")
                        /\ LabelCalls("title")' = LabelCalls("title")
       /\ LabelTagInPlotting => (pc' = "done" /\ result' = "False" /\ exitLine' = 128)]_vars

\* an X record after a series was drawn
C15_Witness ==
    /\ exitLine = 128
    /\ byte_s = <<Tag_X>>
    /\ DrawCalls # {}
    /\ HasCall({"xlabel"})

----------------------------------------------------------------------------
\* ---- C16 ----

OptionTypes == {Tag_S, Tag_I, Tag_D}

\* the step reads a type byte that is none of S, I, D
ReadsUnknownType ==
    /\ pc = "L109"
    /\ Len(file') > Len(file)
    /\ file'[Len(file) + 1] \notin OptionTypes

\* C16: an O record whose type byte is none of S, I, D ends the decode at
\* that byte with the failure result (with UnicodeDecodeError when the byte
\* is not UTF-8): the option is not added to the dictionary, no further byte
\* is read, no record is decoded and no call, so no save, is issued.
C16_UnknownTypeFails ==
    [][ReadsUnknownType =>
          /\ pc' = "done"
          /\ \/ result' = "False" /\ exitLine' = 121
             \/ result' = "UnicodeDecodeError" /\ exitLine' = 109
          /\ arguments' = arguments
          /\ Len(file') = Len(file) + 1
          /\ recs' = recs
          /\ calls' = calls
          /\ \A i \in 1..Len(calls') : calls'[i].op # "savefig"]_vars

\* an unknown option type after a series was drawn, with a save path
C16_Witness ==
    /\ exitLine = 121
    /\ file[Len(file)] = 90
    /\ Len(local_path) > 0
    /\ DrawCalls # {}

----------------------------------------------------------------------------
\* ---- C17 ----

----------------------------------------------------------------------------
\* ---- C18 ----

\* C18: the directory that is created is the parent directory of the path
\* the figure is saved to, the output directory joined with the save path.
C18_ParentOfSavedPath ==
    \A i \in 1..Len(calls) :
        calls[i].op = "mkdir" =>
            /\ calls[Len(calls)].op = "savefig"
            /\ calls[Len(calls)].label = PathJoin(OutDir, local_path)
            /\ calls[i].label = PathParent(calls[Len(calls)].label)

----------------------------------------------------------------------------
\* ---- C19 ----

\* the string of a label record was read and is empty
EmptyLabelRead == pc = "setlabel" /\ strval = <<>>

\* C19: a label record with an empty string changes nothing: no call is
\* issued, so every label stays what it was, and the decode goes on with the
\* next tag in the labels loop.
C19_EmptyLabelKeeps ==
    [][EmptyLabelRead =>
          /\ calls' = calls
          /\ AxisLabel("xlabel")' = AxisLabel("xlabel")
          /\ AxisLabel("ylabel")' = AxisLabel("ylabel")
          /\ AxisLabel("title")' = AxisLabel("title")
          /\ \/ pc' = "labels"
             \/ pc' = "done" /\ result' = "UnicodeDecodeError" /\ exitLine' = 68]_vars

\* an X record with a string, then an X record with an empty string
C19_Witness ==
    /\ pc = "labels"
    /\ Len(recs) >= 4
    /\ recs[Len(recs)].tag = Tag_X
    /\ recs[Len(recs)].text = <<>>
    /\ recs[Len(recs) - 1].tag = Tag_X
    /\ AxisLabel("xlabel") = recs[Len(recs) - 1].text
    /\ AxisLabel("xlabel") # <<>>

----------------------------------------------------------------------------
\* ---- C20 ----

\* the calls of pyplot; mkdir is a call of pathlib
PyplotCalls == {i \in 1..Len(calls) : calls[i].op # "mkdir"}

\* C20: in a sequence of make_image calls, every figure, label, draw, legend
\* and savefig call of a call acts on the figure that this same call has
\* created, also after calls that failed part-way.
C20_NoLeakBetweenCalls ==
    \A i \in PyplotCalls :
        /\ calls[i].fig \in 1..Len(plt.figs)
        /\ plt.figs[calls[i].fig] = CallNo

\* a second call that draws and saves after a first call that drew and failed
C20_Witness ==
    /\ Len(history) = 1
    /\ history[1].result = "False"
    /\ \E i \in 1..Len(history[1].calls) : history[1].calls[i].op \in DrawOps
    /\ DrawCalls # {}
    /\ HasCall({"savefig"})

====
